---- MODULE Spec2Model ----
(***************************************************************************)
(* The "courses" REST service of rust-web, in its two deployed variants:   *)
(*   actix-2         courses kept in a Mutex<Vec<Course>> (AppState)       *)
(*   actix-postgres  courses kept in the `course` table behind a PgPool    *)
(* A behaviour runs one of the two binaries (variable `variant`).          *)
(*                                                                         *)
(* Encodings.  Option<int>: None is the value None (-1), Some(n) is n.     *)
(* u32 counters never wrap within the bounds (2^32 is out of reach), so     *)
(* their arithmetic is plain.                                              *)
(* A String is a sequence of words, so that "contains" can be computed.    *)
(* An HTTP response is a record: the handler that answered (op), the path  *)
(* parameters it was given, the status, the kind of JSON body and the body *)
(* (msg for a JSON string or an error_msg, courses for a Course or an      *)
(* array of Course).                                                       *)
(***************************************************************************)
EXTENDS Integers, Sequences, FiniteSets, TLC

\* ---------------------------------------------------------------- bounds
NumWorkers == 2          \* HttpServer worker threads sharing the AppState
MaxCourses == 3          \* create requests accepted in one behaviour
MaxVisits == 2           \* health checks served in one behaviour
MaxDetailLen == 2        \* words of variable text in an error's detail

\* ------------------------------------------------------------- constants
None == -1

Workers == 1 .. NumWorkers
Teachers == {1, 2}
Names == {<<"Algebra">>, <<"Geometry">>}
InputIds == {None, 1}
AltIds == {None, 1, 2}
CourseIds == {1, 2}

HealthCheckResponse == <<"I'm", "OK.">>
TimeNow == "now"
TimeDefault == "db_default"

\* variant         which binary runs: "memory" (actix-2) or "postgres"
\* visit_count     AppState.visit_count
\* courses         AppState.courses (in-memory variant)
\* db              rows of the course table (persisted variant)
\* pc, new_course_req, course_count
\*                 per worker: where its new_course call stands, the request
\*                 it decoded and its local course_count
\* resp            the last HTTP response sent
\* err             the MyError value handed to error_response (SpecErr)
\* reported        history: the counts the health checks formatted, in lock order
\* overlap         history: some create started while another was in flight
\* twin            history: the id the last create stored, and the id the same
\*                 create would have stored had its request carried another id
VARIABLES variant, visit_count, courses, db, pc, new_course_req, course_count,
          resp, err, reported, overlap, twin

vars == <<variant, visit_count, courses, db, pc, new_course_req, course_count,
          resp, err, reported, overlap, twin>>

\* ------------------------------------------------------------ data model
Course(teacher_id, id, name, time) ==
    [teacher_id |-> teacher_id, id |-> id, name |-> name, time |-> time]

NoCourse == Course(0, None, <<>>, "none")

NoResp == [op |-> "none", teacher_id |-> 0, course_id |-> 0, status |-> 0,
           kind |-> "none", msg |-> <<>>, courses |-> <<>>]

\* HttpResponse::Ok().json( <string> )
OkString(op, teacher_id, course_id, msg) ==
    [op |-> op, teacher_id |-> teacher_id, course_id |-> course_id,
     status |-> 200, kind |-> "string", msg |-> msg, courses |-> <<>>]

\* HttpResponse::Ok().json( <Course> )
OkCourse(op, teacher_id, course_id, course) ==
    [op |-> op, teacher_id |-> teacher_id, course_id |-> course_id,
     status |-> 200, kind |-> "course", msg |-> <<>>, courses |-> <<course>>]

\* HttpResponse::Ok().json( <Vec<Course>> )
OkCourses(op, teacher_id, cs) ==
    [op |-> op, teacher_id |-> teacher_id, course_id |-> 0,
     status |-> 200, kind |-> "courses", msg |-> <<>>, courses |-> cs]

\* ------------------------------------------------------- error taxonomy
MyError(kind, msg) == [kind |-> kind, msg |-> msg]
NoError == MyError("none", <<>>)

\* mutant: the storage error's detail is passed through
ErrorMsgLeaks(e) ==
    CASE e.kind = "DBError"    -> e.msg
      [] e.kind = "ActixError" -> <<"Internal", "server", "error">>
      [] e.kind = "NotFound"   -> e.msg

\* MyError::error_response(&self) -> String
ErrorMsg(e) ==
    CASE e.kind = "DBError"    -> <<"Database", "error">>
      [] e.kind = "ActixError" -> <<"Internal", "server", "error">>
      [] e.kind = "NotFound"   -> e.msg

\* ResponseError::status_code
StatusCode(e) ==
    IF e.kind \in {"DBError", "ActixError"} THEN 500 ELSE 404

\* ResponseError::error_response(&self) -> HttpResponse
ErrorResponse(op, teacher_id, course_id, e) ==
    [op |-> op, teacher_id |-> teacher_id, course_id |-> course_id,
     status |-> StatusCode(e), kind |-> "error", msg |-> ErrorMsg(e),
     courses |-> <<>>]

\* ------------------------------------------------- in-memory variant
RECURSIVE FilterKeepsAll(_, _)
\* mutant: the filter's predicate is dropped
FilterKeepsAll(cs, teacher_id) ==
    IF cs = <<>> THEN <<>>
    ELSE <<Head(cs)>> \o FilterKeepsAll(Tail(cs), teacher_id)

RECURSIVE FilterByTeacher(_, _)
\* .into_iter().filter( |course| course.teacher_id == teacher_id ).collect()
FilterByTeacher(cs, teacher_id) ==
    IF cs = <<>> THEN <<>>
    ELSE IF Head(cs).teacher_id = teacher_id
         THEN <<Head(cs)>> \o FilterByTeacher(Tail(cs), teacher_id)
         ELSE FilterByTeacher(Tail(cs), teacher_id)

RECURSIVE Find(_, _, _)
\* .into_iter().find( |x| x.teacher_id == teacher_id && x.id == Some(course_id) )
Find(cs, teacher_id, course_id) ==
    IF cs = <<>> THEN NoCourse
    ELSE IF Head(cs).teacher_id = teacher_id /\ Head(cs).id = course_id
         THEN Head(cs)
         ELSE Find(Tail(cs), teacher_id, course_id)

\* format!( "{} {} times", health_check_response, visit_count )
Format(greeting, n) == greeting \o <<ToString(n), "times">>

\* mutant: the id is the bare count
MakeCourseNoIncrement(req, count) ==
    Course(req.teacher_id, count, req.name, TimeNow)

\* the Course literal built by new_course from the request and the count
MakeCourse(req, count) ==
    Course(req.teacher_id, count + 1, req.name, TimeNow)

Init ==
    /\ variant \in {"memory", "postgres"}
    /\ visit_count = 0
    /\ courses = <<>>
    /\ db = <<>>
    /\ pc = [p \in Workers |-> "idle"]
    /\ new_course_req = [p \in Workers |-> NoCourse]
    /\ course_count = [p \in Workers |-> 0]
    /\ resp = NoResp
    /\ err = NoError
    /\ reported = <<>>
    /\ overlap = FALSE
    /\ twin = <<None, None>>

\* mutant: the counter is reported but not incremented
HealthCheckHandlerStale ==
    /\ Len(reported) < MaxVisits
    /\ resp' = OkString("health", 0, 0, Format(HealthCheckResponse, visit_count))
    /\ reported' = Append(reported, visit_count)
    /\ UNCHANGED <<variant, visit_count, courses, db, pc, new_course_req,
                   course_count, err, overlap, twin>>

\* health_check_handler: one critical section on visit_count (both variants)
HealthCheckHandler ==
    /\ visit_count < MaxVisits
    /\ resp' = OkString("health", 0, 0, Format(HealthCheckResponse, visit_count))
    /\ reported' = Append(reported, visit_count)
    /\ visit_count' = visit_count + 1
    /\ UNCHANGED <<variant, courses, db, pc, new_course_req, course_count,
                   err, overlap, twin>>

InFlight == Cardinality({p \in Workers : pc[p] = "counted"})

\* new_course, first statement: lock, clone, filter, len; the guard is a
\* temporary and is dropped at the end of the statement.  Idle workers are
\* interchangeable, so the request goes to the lowest-numbered one.
NewCourseCount(p, req) ==
    /\ variant = "memory"
    /\ pc[p] = "idle"
    /\ \A q \in Workers : q < p => pc[q] # "idle"
    /\ Len(courses) + InFlight < MaxCourses
    /\ course_count' = [course_count EXCEPT ![p] = Len(FilterByTeacher(courses, req.teacher_id))]
    /\ new_course_req' = [new_course_req EXCEPT ![p] = req]
    /\ pc' = [pc EXCEPT ![p] = "counted"]
    /\ overlap' = (overlap \/ InFlight > 0)
    /\ UNCHANGED <<variant, visit_count, courses, db, resp, err, reported, twin>>

\* mutant: the new course is inserted at the front
NewCoursePushFront(p, alt) ==
    /\ variant = "memory"
    /\ alt # new_course_req[p].id
    /\ pc[p] = "counted"
    /\ courses' = <<MakeCourse(new_course_req[p], course_count[p])>> \o courses
    /\ resp' = OkString("create", new_course_req[p].teacher_id, 0, <<"Course", "added">>)
    /\ twin' = <<MakeCourse(new_course_req[p], course_count[p]).id,
                 MakeCourse([new_course_req[p] EXCEPT !.id = alt], course_count[p]).id>>
    /\ pc' = [pc EXCEPT ![p] = "idle"]
    /\ new_course_req' = [new_course_req EXCEPT ![p] = NoCourse]
    /\ course_count' = [course_count EXCEPT ![p] = 0]
    /\ UNCHANGED <<variant, visit_count, db, err, reported, overlap>>

\* new_course, rest: build the Course, lock again, push, answer
NewCoursePush(p, alt) ==
    /\ variant = "memory"
    /\ alt # new_course_req[p].id
    /\ pc[p] = "counted"
    /\ courses' = Append(courses, MakeCourse(new_course_req[p], course_count[p]))
    /\ resp' = OkString("create", new_course_req[p].teacher_id, 0, <<"Course", "added">>)
    /\ twin' = <<MakeCourse(new_course_req[p], course_count[p]).id,
                 MakeCourse([new_course_req[p] EXCEPT !.id = alt], course_count[p]).id>>
    /\ pc' = [pc EXCEPT ![p] = "idle"]
    /\ new_course_req' = [new_course_req EXCEPT ![p] = NoCourse]
    /\ course_count' = [course_count EXCEPT ![p] = 0]
    /\ UNCHANGED <<variant, visit_count, db, err, reported, overlap>>

\* get_courses_for_teacher (in-memory)
GetCoursesForTeacher(teacher_id) ==
    /\ variant = "memory"
    /\ LET filtered_courses == FilterByTeacher(courses, teacher_id)
       IN  resp' = IF Len(filtered_courses) > 0
                   THEN OkCourses("list", teacher_id, filtered_courses)
                   ELSE OkString("list", teacher_id, 0,
                                 <<"No", "courses", "found", "for", "teacher">>)
    /\ UNCHANGED <<variant, visit_count, courses, db, pc, new_course_req,
                   course_count, err, reported, overlap, twin>>

\* get_course_detail (in-memory)
GetCourseDetail(teacher_id, course_id) ==
    /\ variant = "memory"
    /\ LET selected_course == Find(courses, teacher_id, course_id)
       IN  resp' = IF selected_course # NoCourse
                   THEN OkCourse("get", teacher_id, course_id, selected_course)
                   ELSE OkString("get", teacher_id, course_id,
                                 <<"Course", "not", "found">>)
    /\ UNCHANGED <<variant, visit_count, courses, db, pc, new_course_req,
                   course_count, err, reported, overlap, twin>>

\* ------------------------------------------------- persisted variant
\* The `course` table is a sequence of rows in insertion order.  A query
\* either reaches the database (up) or fails with an sqlx error, which
\* From<SQLxError> turns into MyError::DBError( err.to_string() ).
SqlxPrefix == <<"error", "returned", "from", "database:">>
ActixPrefix == <<"Json", "deserialize", "error:">>
DetailWords == {"password", "course", "refused", "Database", "error"}

Unavailable == MyError("DBError", SqlxPrefix \o <<"refused">>)
NotNullViolation == MyError("DBError", SqlxPrefix \o <<"course">>)

\* Result<_, MyError> with the table the statement leaves behind
DbResult(ok, cs, e, rows) == [ok |-> ok, courses |-> cs, err |-> e, rows |-> rows]

\* post_new_course_db: insert into course( id, teacher_id, name )
\* values($1,$2,$3) returning id, teacher_id, name, time.  The id column is
\* NOT NULL (row.id is read as a plain i32), so a NULL $1 is rejected.
PostNewCourseDb(rows, new_course, up) ==
    IF ~up THEN DbResult(FALSE, <<>>, Unavailable, rows)
    ELSE IF new_course.id = None
         THEN DbResult(FALSE, <<>>, NotNullViolation, rows)
         ELSE LET row == Course(new_course.teacher_id, new_course.id,
                                new_course.name, TimeDefault)
              IN  DbResult(TRUE, <<row>>, NoError, Append(rows, row))

\* mutant: an empty result is returned as Ok
GetCoursesForTeacherDbEmptyOk(rows, teacher_id, up) ==
    IF ~up THEN DbResult(FALSE, <<>>, Unavailable, rows)
    ELSE DbResult(TRUE, FilterByTeacher(rows, teacher_id), NoError, rows)

\* get_courses_for_teacher_db
GetCoursesForTeacherDb(rows, teacher_id, up) ==
    IF ~up THEN DbResult(FALSE, <<>>, Unavailable, rows)
    ELSE LET cs == FilterByTeacher(rows, teacher_id)
         IN  IF Len(cs) = 0
             THEN DbResult(FALSE, <<>>,
                           MyError("NotFound", <<"Courses", "not", "found", "for", "teacher">>),
                           rows)
             ELSE DbResult(TRUE, cs, NoError, rows)

\* get_course_details_db: fetch_one(pool).await.unwrap() panics on an sqlx
\* error, a missing row (RowNotFound) included
GetCourseDetailsDb(rows, teacher_id, course_id, up) ==
    IF up /\ Find(rows, teacher_id, course_id) # NoCourse
    THEN DbResult(TRUE, <<Find(rows, teacher_id, course_id)>>, NoError, rows)
    ELSE DbResult(FALSE, <<>>, NoError, rows)

\* a handler that panicked answers nothing
Panicked(op, teacher_id, course_id) ==
    [op |-> op, teacher_id |-> teacher_id, course_id |-> course_id,
     status |-> 0, kind |-> "panic", msg |-> <<>>, courses |-> <<>>]

StoredId(r) == IF r.ok THEN r.courses[1].id ELSE None

\* new_course (persisted)
NewCourseDb(req, up, alt) ==
    /\ variant = "postgres"
    /\ Len(db) < MaxCourses
    /\ alt # req.id
    /\ LET r == PostNewCourseDb(db, req, up)
           r2 == PostNewCourseDb(db, [req EXCEPT !.id = alt], up)
       IN  /\ db' = r.rows
           /\ resp' = IF r.ok
                      THEN OkCourse("create", req.teacher_id, 0, r.courses[1])
                      ELSE ErrorResponse("create", req.teacher_id, 0, r.err)
           /\ twin' = <<StoredId(r), StoredId(r2)>>
    /\ UNCHANGED <<variant, visit_count, courses, pc, new_course_req,
                   course_count, err, reported, overlap>>

\* get_courses_for_teacher (persisted)
GetCoursesForTeacherPg(teacher_id, up) ==
    /\ variant = "postgres"
    /\ LET r == GetCoursesForTeacherDb(db, teacher_id, up)
       IN  resp' = IF r.ok
                   THEN OkCourses("list", teacher_id, r.courses)
                   ELSE ErrorResponse("list", teacher_id, 0, r.err)
    /\ UNCHANGED <<variant, visit_count, courses, db, pc, new_course_req,
                   course_count, err, reported, overlap, twin>>

\* get_course_detail (persisted)
GetCourseDetailPg(teacher_id, course_id, up) ==
    /\ variant = "postgres"
    /\ LET r == GetCourseDetailsDb(db, teacher_id, course_id, up)
       IN  resp' = IF r.ok
                   THEN OkCourse("get", teacher_id, course_id, r.courses[1])
                   ELSE Panicked("get", teacher_id, course_id)
    /\ UNCHANGED <<variant, visit_count, courses, db, pc, new_course_req,
                   course_count, err, reported, overlap, twin>>

Requests == {Course(t, i, n, "none") : t \in Teachers, i \in InputIds, n \in Names}

Next ==
    \/ HealthCheckHandler
    \/ \E p \in Workers, req \in Requests : NewCourseCount(p, req)
    \/ \E p \in Workers, alt \in AltIds : NewCoursePush(p, alt)
    \/ \E t \in Teachers : GetCoursesForTeacher(t)
    \/ \E t \in Teachers, c \in CourseIds : GetCourseDetail(t, c)
    \/ \E req \in Requests, up \in BOOLEAN, alt \in AltIds : NewCourseDb(req, up, alt)
    \/ \E t \in Teachers, up \in BOOLEAN : GetCoursesForTeacherPg(t, up)
    \/ \E t \in Teachers, c \in CourseIds, up \in BOOLEAN : GetCourseDetailPg(t, c, up)

Spec == Init /\ [][Next]_vars

\* ---------------------------------------- the error taxonomy on its own
\* every MyError value the From impls and the handlers can build
RECURSIVE SeqsUpTo(_, _)
SeqsUpTo(S, n) ==
    IF n = 0 THEN {<<>>}
    ELSE SeqsUpTo(S, n - 1) \cup
         {Append(q, w) : q \in {x \in SeqsUpTo(S, n - 1) : Len(x) = n - 1}, w \in S}

Details(prefix) == {prefix \o tail : tail \in SeqsUpTo(DetailWords, MaxDetailLen)}

MyErrors ==
    {MyError("DBError", d) : d \in Details(SqlxPrefix)} \cup
    {MyError("ActixError", d) : d \in Details(ActixPrefix)} \cup
    {MyError("NotFound", d) : d \in Details(<<"Courses", "not", "found">>)}

InitErr ==
    /\ variant = "postgres"
    /\ visit_count = 0
    /\ courses = <<>>
    /\ db = <<>>
    /\ pc = [p \in Workers |-> "idle"]
    /\ new_course_req = [p \in Workers |-> NoCourse]
    /\ course_count = [p \in Workers |-> 0]
    /\ resp = NoResp
    /\ err \in MyErrors
    /\ reported = <<>>
    /\ overlap = FALSE
    /\ twin = <<None, None>>

\* actix-web answers a handler's Err(e) with e.error_response()
RespondError ==
    /\ resp = NoResp
    /\ resp' = ErrorResponse("error", 0, 0, err)
    /\ UNCHANGED <<variant, visit_count, courses, db, pc, new_course_req,
                   course_count, err, reported, overlap, twin>>

NextErr == RespondError

SpecErr == InitErr /\ [][NextErr]_vars

\* ================================================================ claims
\* positions of teacher t's courses in cs, and the rank of position i
\* among the positions of its own teacher
MatchIdx(cs, t) == {i \in DOMAIN cs : cs[i].teacher_id = t}
Rank(cs, i) == Cardinality({j \in MatchIdx(cs, cs[i].teacher_id) : j <= i})

\* r holds exactly the courses of teacher t in cs, in the order of cs
ExactlyCoursesOf(r, cs, t) ==
    /\ Len(r) = Cardinality(MatchIdx(cs, t))
    /\ \A i \in MatchIdx(cs, t) : r[Rank(cs, i)] = cs[i]

Store == IF variant = "memory" THEN courses ELSE db

\* body (a sequence of words) contains detail as a contiguous run
Contains(body, detail) ==
    \E i \in 0 .. (Len(body) - Len(detail)) :
        SubSeq(body, i + 1, i + Len(detail)) = detail

\* C1: in the in-memory variant no two stored courses share the pair
\* (teacher_id, id), whatever the interleaving of concurrent creates.
C1_NoDuplicateIds ==
    \A i, j \in DOMAIN courses :
        i # j => <<courses[i].teacher_id, courses[i].id>> #
                 <<courses[j].teacher_id, courses[j].id>>

\* C2: when no create has overlapped another, the ids of each teacher's
\* courses, in insertion order, are 1, 2, ..., k (the course stored for a
\* teacher with N courses has id N+1).
C2_SequentialIds ==
    ~overlap => \A i \in DOMAIN courses : courses[i].id = Rank(courses, i)

C2_Witness ==
    /\ ~overlap
    /\ Len(courses) = 3
    /\ courses[1].teacher_id = courses[3].teacher_id
    /\ courses[2].teacher_id # courses[1].teacher_id

\* C3: every in-memory list-by-teacher answers exactly the stored courses
\* of the teacher asked for, in insertion order.
C3_ListExact ==
    [][\A t \in Teachers :
         GetCoursesForTeacher(t) => ExactlyCoursesOf(resp'.courses, courses, t)]_vars

C3_Witness ==
    /\ variant = "memory"
    /\ resp.op = "list"
    /\ Len(resp.courses) = 2
    /\ Len(courses) = 3
    /\ courses[2].teacher_id # resp.teacher_id

\* C4: in-memory get-one asked for the teacher_id and id of any stored
\* course answers a course with that course's teacher_id and name.
C4_RoundTrip ==
    [][\A t \in Teachers, c \in CourseIds :
         GetCourseDetail(t, c) =>
           \A i \in DOMAIN courses :
             (courses[i].teacher_id = t /\ courses[i].id = c) =>
               /\ resp'.kind = "course"
               /\ resp'.courses[1].teacher_id = courses[i].teacher_id
               /\ resp'.courses[1].name = courses[i].name]_vars

\* C5: a create answered with 200 carries the created Course, with its
\* assigned id, as the body; the course is in the store.
C5_CreateAnswersCourse ==
    (resp.op = "create" /\ resp.status = 200) =>
        /\ resp.kind = "course"
        /\ resp.courses[1].id # None
        /\ \E i \in DOMAIN Store : Store[i] = resp.courses[1]

NoCourseOf(t) == MatchIdx(Store, t) = {}

NonEmptyArray == resp.kind = "courses" => Len(resp.courses) > 0

MemoryNotFound ==
    /\ resp.status = 200
    /\ resp.kind = "string"
    /\ resp.msg = <<"No", "courses", "found", "for", "teacher">>

PgNotFound ==
    /\ resp.status = 404
    /\ resp.kind = "error"
    /\ resp.msg = <<"Courses", "not", "found", "for", "teacher">>

PgStorageFailure ==
    /\ resp.status = 500
    /\ resp.kind = "error"
    /\ resp.msg = <<"Database", "error">>

\* C6 as stated: a list for a teacher with no stored course answers the
\* not-found string with 200 (in-memory) or NotFound with 404 (persisted),
\* and a 200 array is never empty.
C6_Original ==
    resp.op = "list" =>
        /\ NonEmptyArray
        /\ NoCourseOf(resp.teacher_id) =>
             IF variant = "memory" THEN MemoryNotFound ELSE PgNotFound

\* C6 amended: as stated, except that the persisted variant answers 500
\* "Database error" when the query itself fails.
C6_Amended ==
    resp.op = "list" =>
        /\ NonEmptyArray
        /\ NoCourseOf(resp.teacher_id) =>
             IF variant = "memory" THEN MemoryNotFound
             ELSE PgNotFound \/ PgStorageFailure

C6_Witness ==
    /\ variant = "postgres"
    /\ resp.op = "list"
    /\ db # <<>>
    /\ NoCourseOf(resp.teacher_id)
    /\ PgNotFound

\* C7: two creates that differ only in the input id, run against the same
\* store, store the same id.
C7_InputIdIgnored ==
    (twin[1] # None /\ twin[2] # None) => twin[1] = twin[2]

\* C8: DBError answers 500 "Database error", ActixError answers 500
\* "Internal server error", NotFound answers 404 with its own message; the
\* body of a 500 does not contain the error's detail.
C8_ErrorTaxonomy ==
    resp.kind = "error" =>
        /\ err.kind = "DBError" =>
             resp.status = 500 /\ resp.msg = <<"Database", "error">>
        /\ err.kind = "ActixError" =>
             resp.status = 500 /\ resp.msg = <<"Internal", "server", "error">>
        /\ err.kind = "NotFound" =>
             resp.status = 404 /\ resp.msg = err.msg
        /\ resp.status = 500 => ~Contains(resp.msg, err.msg)

C8_Witness ==
    /\ resp.kind = "error"
    /\ err.kind = "DBError"
    /\ Len(err.msg) = Len(SqlxPrefix) + MaxDetailLen
    /\ resp.status = 500

\* C9: after k health checks the counter is k, the reported counts are
\* strictly increasing in lock order, and the answer carries the count.
C9_VisitCounter ==
    /\ visit_count = Len(reported)
    /\ \A i, j \in DOMAIN reported : i < j => reported[i] < reported[j]
    /\ resp.op = "health" =>
         /\ resp.status = 200
         /\ resp.msg = HealthCheckResponse \o
                         <<ToString(reported[Len(reported)]), "times">>

C9_Witness ==
    /\ resp.op = "health"
    /\ Len(reported) >= 2
    /\ visit_count = 2

IsPrefix(s, t) == Len(s) <= Len(t) /\ SubSeq(t, 1, Len(s)) = s

\* C10: every step keeps the stored courses as a prefix of the collection;
\* only the push of a create changes it, by one record at the end.
C10_AppendOnly ==
    [][/\ IsPrefix(courses, courses')
       /\ Len(courses') <= Len(courses) + 1
       /\ courses' # courses =>
            \E p \in Workers : pc[p] = "counted" /\ pc'[p] = "idle"]_vars

C10_Witness ==
    /\ Len(courses) >= 2
    /\ resp.op \in {"list", "get"}
    /\ visit_count > 0

====
